---- MODULE Spec2Model ----
(***************************************************************************)
(* A model of the three Mari node-graph scripts of src/nodegraph:          *)
(*   mari_paint_replace.py        reset of paint and channel nodes         *)
(*   mari_group_expose.py         knobs of a selection on the group node   *)
(*   mari_create_new_channels.py  batch creation of channel nodes          *)
(* The host's node graph (nodes, ports, connections, knobs) is the state;  *)
(* every host call the scripts make is modelled by its documented effect,  *)
(* and the host calls the scripts guard with try/except may fail.          *)
(***************************************************************************)
EXTENDS Integers, Sequences, FiniteSets, TLC

\* ------------------------------------------------------------------ bounds
\* Nodes of the node graph when mari_paint_replace.py starts.
MaxNodes == 3
\* Longest selection handed to mari_paint_replace.py.
MaxSel == 3

\* ---------------------------------------------------------- host node graph
PaintType == "MRI_Misc_Channel_Input"
ChannelType == "MRI__System_Shader_Input"
\* Any node type the script does not support (an adjustment node, say).
OtherType == "MRI_Adjustment_Levels"
NodeTypes == {PaintType, ChannelType, OtherType}

\* Input ports of a node of type t: a paint node is a source, a channel node
\* has the one port "Input" the script reads and sets.
InPorts(t) ==
    IF t = PaintType THEN {}
    ELSE IF t = ChannelType THEN {"Input"}
    ELSE {"Base"}

\* Output ports of a node of type t: the script uses "Output" of paint and
\* channel nodes; another node may feed a channel from any of its outputs.
OutPorts(t) ==
    IF t = OtherType THEN {"Output", "Out2"} ELSE {"Output"}

\* None, as Python's None for a node or a port name.
None == 0
NoneConn == <<None, "">>

DefaultColor == "black"
DefaultCs == [scalar |-> FALSE, raw |-> FALSE]
DefaultScs == [scalar |-> TRUE, raw |-> TRUE]
DefaultPos == <<0, 0>>

\* The properties the nodes of the initial graph carry: every other node
\* holds the host's defaults, the ones between differ from the defaults in
\* every property (i is the node's id, or the id plus one).
InitialNode(i, t) ==
    IF i % 2 = 1
    THEN [typeID |-> t, name |-> "base", width |-> 1024, height |-> 1024,
          depth |-> 8, fillColor |-> DefaultColor, cs |-> DefaultCs,
          scs |-> DefaultScs, locked |-> FALSE, pos |-> <<i, 0>>]
    ELSE [typeID |-> t, name |-> "mask", width |-> 2048, height |-> 2048,
          depth |-> 16, fillColor |-> "red",
          cs |-> [scalar |-> TRUE, raw |-> FALSE],
          scs |-> [scalar |-> TRUE, raw |-> FALSE],
          locked |-> TRUE, pos |-> <<i, 7>>]

VARIABLES
    nodes,          \* the node graph: live node id -> its properties
    conn,           \* connections: [dst, port, src, out]
    selections,     \* UserSelAction.selections
    idx,            \* main's position in selections (1-based)
    pc,             \* where main is
    err,            \* the exception main ended with, "" when none
    cur,            \* self.paint_node / self.channel_node of the running reset
    orig,           \* the node the running reset was called on
    list_connection,\* list_connection / list_out_connection of the reset
    j,              \* position of the reconnection loop in list_connection
    input_conn,     \* (input_node, outport_input_node) of ChannelAction.reset
    resetLog,       \* the resets that returned: [kind, orig, new]
    nextId,         \* the id the host gives the next created node
    pre,            \* the graph when the running reset was called
    first           \* the graph when main started

replaceVars == <<nodes, conn, selections, idx, pc, err, cur, orig,
                 list_connection, j, input_conn, resetLog, nextId, pre, first>>

\* mari_group_expose.py
VARIABLES
    sel_types,      \* typeID of each node of UserSelAction.selections
    meta,           \* first_node.metadataNames()
    has_group,      \* whether ngc.parentGroupNode() is a node
    attr_ignore_list,
    knob_dict,      \* the OrderedDict: a sequence of <<attribute, knob names>>
    calls,          \* the createKnob and linkKnobs calls made on the group node
    printed,        \* the linkKnobs errors printed
    index,          \* enumerate's index of source_node (0-based)
    k,              \* position in knob_dict of the running loop (1-based)
    e_pc,           \* where expose_attr_to_parent_group is
    e_err           \* the exception the script ended with, "" when none

exposeVars == <<sel_types, meta, has_group, attr_ignore_list, knob_dict,
                calls, printed, index, k, e_pc, e_err>>

\* mari_create_new_channels.py
VARIABLES
    color_config,   \* mari.ocio.currentColorspaceConfig()
    pending,        \* the entries of channels_data setup has not reached
    channels,       \* the channel nodes created in the node graph
    invoked,        \* create_channel calls per entry
    returned,       \* what create_channel returned per entry
    messages,       \* the entries mari.utils.messageAndLog reported
    c_pc            \* where setup is

createVars == <<color_config, pending, channels, invoked, returned, messages,
                c_pc>>

vars == <<replaceVars, exposeVars, createVars>>

\* mari.Node.outputNodes(port): the (target node, target port) pairs fed by it.
OutputNodes(c, n, port) ==
    {<<e.dst, e.port>> : e \in {x \in c : x.src = n /\ x.out = port}}

\* mari.ExtensionPack.node.inputNode(node, port): the node and output port
\* connected to the input port, (None, None) when it is unconnected.
InputNode(c, n, port) ==
    IF \E e \in c : e.dst = n /\ e.port = port
    THEN LET e == CHOOSE x \in c : x.dst = n /\ x.port = port
         IN <<e.src, e.out>>
    ELSE NoneConn

\* mari.Node.setInputNode(port, node, outport) on dst: the port takes the new
\* source, and is left unconnected when node is None.
SetInputNode(c, dst, port, src, out) ==
    {e \in c : ~(e.dst = dst /\ e.port = port)}
        \cup (IF src = None THEN {}
              ELSE {[dst |-> dst, port |-> port, src |-> src, out |-> out]})

\* A reset that leaves the original, and so its connections, in the graph
\* while it reconnects.
DeleteConnLater(c, n) == c

\* NodeGraph.deleteNode: the connections of a deleted node go with it.
DeleteConn(c, n) == {e \in c : e.src # n /\ e.dst # n}
DeleteNode(g, n) == [i \in (DOMAIN g) \ {n} |-> g[i]]

\* NodeGraph.createPaintNode(width, height, depth, color, filespace, config)
CreatePaintNode(w, h, depth, color, cs) ==
    [typeID |-> PaintType, name |-> "Paint", width |-> w, height |-> h,
     depth |-> depth, fillColor |-> color, cs |-> cs, scs |-> DefaultScs,
     locked |-> FALSE, pos |-> DefaultPos]

\* NodeGraph.createChannelNode(width, height, depth, filespace, config)
CreateChannelNode(w, h, depth, cs) ==
    [typeID |-> ChannelType, name |-> "Channel", width |-> w, height |-> h,
     depth |-> depth, fillColor |-> DefaultColor, cs |-> cs,
     scs |-> DefaultScs, locked |-> FALSE, pos |-> DefaultPos]

\* The orders a host call may list the members of S in.
RECURSIVE Orders(_)
Orders(S) ==
    IF S = {} THEN {<<>>}
    ELSE UNION {{<<x>> \o s : s \in Orders(S \ {x})} : x \in S}

\* ------------------------------------------------------------ initial graph
NodeIds == 1..MaxNodes

\* The connections an input port of dst can have: a graph is acyclic, so its
\* nodes are numbered with every source above its targets.
Feeds(types, dst, port) ==
    {[dst |-> dst, port |-> port, src |-> s, out |-> o] :
        s \in {x \in NodeIds : x > dst}, o \in {"Output", "Out2"}}

RECURSIVE Graphs(_, _)
Graphs(types, slots) ==
    IF slots = {} THEN {{}}
    ELSE LET s == CHOOSE x \in slots : TRUE
             opts == {{}} \cup
                 {{e} : e \in {f \in Feeds(types, s[1], s[2]) :
                                  f.out \in OutPorts(types[f.src])}}
         IN {g \cup e : g \in Graphs(types, slots \ {s}), e \in opts}

Slots(types) ==
    {s \in NodeIds \X {"Input", "Base"} : s[2] \in InPorts(types[s[1]])}

\* The selections: every sequence of distinct nodes, the empty one included.
Selections ==
    UNION {{s \in [1..n -> NodeIds] :
               \A a, b \in 1..n : a # b => s[a] # s[b]} : n \in 0..MaxSel}

ReplaceInit ==
    /\ \E types \in [NodeIds -> NodeTypes], shift \in {0, 1} :
          /\ nodes = [i \in NodeIds |-> InitialNode(i + shift, types[i])]
          /\ conn \in Graphs(types, Slots(types))
    /\ selections \in Selections
    /\ idx = 1
    /\ pc = "start"
    /\ err = ""
    /\ cur = None
    /\ orig = None
    /\ list_connection = <<>>
    /\ j = 1
    /\ input_conn = NoneConn
    /\ resetLog = <<>>
    /\ nextId = MaxNodes + 1
    /\ pre = [nodes |-> nodes, conn |-> conn]
    /\ first = [nodes |-> nodes, conn |-> conn]

\* ------------------------------------------------- mari_paint_replace.py
\* A replacement that is never moved to the original's position.
PaintReplacementUnplaced(paint_node) ==
    [CreatePaintNode(paint_node.width, paint_node.width, paint_node.depth,
                     paint_node.fillColor, paint_node.cs)
        EXCEPT !.name = paint_node.name]

\* PaintAction.reset, the replacement: createPaintNode with the original's
\* size (both ways), depth, colour and config, then setName and
\* setNodeGraphPosition.
PaintReplacement(paint_node) ==
    LET original_name == paint_node.name
        size == paint_node.width
        depth == paint_node.depth
        color == paint_node.fillColor
        cs_config == paint_node.cs
        original_position == paint_node.pos
        new_paint == CreatePaintNode(size, size, depth, color, cs_config)
    IN [new_paint EXCEPT !.name = original_name, !.pos = original_position]

\* ChannelAction.reset, the replacement: createChannelNode with the
\* original's width, height, depth and config, then setLocked,
\* setScalarColorspaceConfig, setName and setNodeGraphPosition.
ChannelReplacement(channel_node) ==
    LET original_name == channel_node.name
        width == channel_node.width
        height == channel_node.height
        depth == channel_node.depth
        cs_config == channel_node.cs
        scs_config == channel_node.scs
        locked == channel_node.locked
        original_position == channel_node.pos
        new_channel == CreateChannelNode(width, height, depth, cs_config)
    IN [new_channel EXCEPT !.locked = locked, !.scs = scs_config,
                           !.name = original_name,
                           !.pos = original_position]

\* A reconnection that names the channel port "Input" whatever the target's
\* recorded port is.
ReconnectInputPort(c, target, new_node) ==
    SetInputNode(c, target[1], "Input", new_node, "Output")

\* target_node.setInputNode(target_port_name, new_node, "Output")
Reconnect(c, target, new_node) ==
    SetInputNode(c, target[1], target[2], new_node, "Output")

\* A reset that never reconnects "Input".
ConnectInputSkipped(c, new_channel, recorded) == c

\* A connection of "Input" that leaves the output port name to its default.
ConnectInputDefaultPort(c, new_channel, recorded) ==
    SetInputNode(c, new_channel, "Input", recorded[1], "Output")

\* new_channel.setInputNode("Input", input_node, outport_input_node)
ConnectInput(c, new_channel, recorded) ==
    SetInputNode(c, new_channel, "Input", recorded[1], recorded[2])

\* A dispatch that takes every node that is no channel node for a paint node.
DispatchNoElse(typeID) ==
    IF typeID = ChannelType THEN "ChannelAction" ELSE "PaintAction"

\* A dispatch whose second test never matches.
DispatchPaintMissed(typeID) ==
    IF typeID = ChannelType THEN "ChannelAction" ELSE "TypeError"

\* main's if / elif / else on node.typeID()
Dispatch(typeID) ==
    IF typeID = ChannelType THEN "ChannelAction"
    ELSE IF typeID = PaintType THEN "PaintAction"
    ELSE "TypeError"

\* UserSelAction.__init__: an empty selection is refused.
MainStart ==
    /\ UNCHANGED <<exposeVars, createVars>>
    /\ pc = "start"
    /\ IF selections = <<>>
       THEN pc' = "raised" /\ err' = "RuntimeError"
       ELSE pc' = "loop" /\ err' = err
    /\ UNCHANGED <<nodes, conn, selections, idx, cur, orig, list_connection,
                   j, input_conn, resetLog, nextId, pre, first>>

\* PaintAction.reset up to the reconnection loop: read the node, create the
\* replacement, name and place it, delete the original.
PaintResetBegin ==
    /\ UNCHANGED <<exposeVars, createVars>>
    /\ pc = "loop"
    /\ idx <= Len(selections)
    /\ Dispatch(nodes[selections[idx]].typeID) = "PaintAction"
    /\ LET node == selections[idx]
           new_paint == nextId
           placed == PaintReplacement(nodes[node])
       IN /\ list_connection' \in Orders(OutputNodes(conn, node, "Output"))
          /\ nodes' = DeleteNode([i \in (DOMAIN nodes) \cup {new_paint} |->
                         IF i = new_paint THEN placed ELSE nodes[i]], node)
          /\ conn' = DeleteConn(conn, node)
          /\ cur' = new_paint
          /\ orig' = node
          /\ nextId' = nextId + 1
    /\ j' = 1
    /\ pre' = [nodes |-> nodes, conn |-> conn]
    /\ pc' = "paint_connect"
    /\ UNCHANGED <<selections, idx, err, input_conn, resetLog, first>>

\* One turn of PaintAction.reset's reconnection loop: setInputNode connects
\* the target's port to the replacement.
PaintConnect ==
    /\ UNCHANGED <<exposeVars, createVars>>
    /\ pc = "paint_connect"
    /\ j <= Len(list_connection)
    /\ conn' = Reconnect(conn, list_connection[j], cur)
    /\ j' = j + 1
    /\ UNCHANGED <<nodes, selections, idx, pc, err, cur, orig,
                   list_connection, input_conn, resetLog, nextId, pre, first>>

\* setInputNode raises RuntimeError, which reset raises again.
PaintConnectFails ==
    /\ UNCHANGED <<exposeVars, createVars>>
    /\ pc = "paint_connect"
    /\ j <= Len(list_connection)
    /\ pc' = "raised"
    /\ err' = "RuntimeError"
    /\ UNCHANGED <<nodes, conn, selections, idx, cur, orig, list_connection,
                   j, input_conn, resetLog, nextId, pre, first>>

\* PaintAction.reset returns, and main goes on to the next selected node.
PaintResetReturn ==
    /\ UNCHANGED <<exposeVars, createVars>>
    /\ pc = "paint_connect"
    /\ j > Len(list_connection)
    /\ resetLog' = Append(resetLog,
                          [kind |-> "PaintAction", orig |-> orig, new |-> cur])
    /\ idx' = idx + 1
    /\ pc' = "loop"
    /\ UNCHANGED <<nodes, conn, selections, err, cur, orig, list_connection,
                   j, input_conn, nextId, pre, first>>

\* ChannelAction.reset up to the reconnection loop: read the channel, create
\* the replacement, lock, configure, name and place it, delete the original.
ChannelResetBegin ==
    /\ UNCHANGED <<exposeVars, createVars>>
    /\ pc = "loop"
    /\ idx <= Len(selections)
    /\ Dispatch(nodes[selections[idx]].typeID) = "ChannelAction"
    /\ LET node == selections[idx]
           new_channel == nextId
           placed == ChannelReplacement(nodes[node])
       IN /\ list_connection' \in Orders(OutputNodes(conn, node, "Output"))
          /\ input_conn' = InputNode(conn, node, "Input")
          /\ nodes' = DeleteNode([i \in (DOMAIN nodes) \cup {new_channel} |->
                         IF i = new_channel THEN placed ELSE nodes[i]], node)
          /\ conn' = DeleteConn(conn, node)
          /\ cur' = new_channel
          /\ orig' = node
          /\ nextId' = nextId + 1
    /\ j' = 1
    /\ pre' = [nodes |-> nodes, conn |-> conn]
    /\ pc' = "channel_connect"
    /\ UNCHANGED <<selections, idx, err, resetLog, first>>

\* One turn of ChannelAction.reset's loop over the output connections.
ChannelConnect ==
    /\ UNCHANGED <<exposeVars, createVars>>
    /\ pc = "channel_connect"
    /\ j <= Len(list_connection)
    /\ conn' = Reconnect(conn, list_connection[j], cur)
    /\ j' = j + 1
    /\ UNCHANGED <<nodes, selections, idx, pc, err, cur, orig,
                   list_connection, input_conn, resetLog, nextId, pre, first>>

\* setInputNode raises RuntimeError, which reset raises again.
ChannelConnectFails ==
    /\ UNCHANGED <<exposeVars, createVars>>
    /\ pc = "channel_connect"
    /\ j <= Len(list_connection)
    /\ pc' = "raised"
    /\ err' = "RuntimeError"
    /\ UNCHANGED <<nodes, conn, selections, idx, cur, orig, list_connection,
                   j, input_conn, resetLog, nextId, pre, first>>

\* The loop is over: the replacement's "Input" takes the recorded upstream
\* node and output port, and reset returns.
ChannelConnectInput ==
    /\ UNCHANGED <<exposeVars, createVars>>
    /\ pc = "channel_connect"
    /\ j > Len(list_connection)
    /\ conn' = ConnectInput(conn, cur, input_conn)
    /\ resetLog' = Append(resetLog,
                          [kind |-> "ChannelAction", orig |-> orig, new |-> cur])
    /\ idx' = idx + 1
    /\ pc' = "loop"
    /\ UNCHANGED <<nodes, selections, err, cur, orig, list_connection, j,
                   input_conn, nextId, pre, first>>

\* The last setInputNode raises: nothing catches it.
ChannelConnectInputFails ==
    /\ UNCHANGED <<exposeVars, createVars>>
    /\ pc = "channel_connect"
    /\ j > Len(list_connection)
    /\ pc' = "raised"
    /\ err' = "RuntimeError"
    /\ UNCHANGED <<nodes, conn, selections, idx, cur, orig, list_connection,
                   j, input_conn, resetLog, nextId, pre, first>>

\* main meets a node that is neither a channel node nor a paint node.
MainUnsupported ==
    /\ UNCHANGED <<exposeVars, createVars>>
    /\ pc = "loop"
    /\ idx <= Len(selections)
    /\ Dispatch(nodes[selections[idx]].typeID) = "TypeError"
    /\ pc' = "raised"
    /\ err' = "TypeError"
    /\ UNCHANGED <<nodes, conn, selections, idx, cur, orig, list_connection,
                   j, input_conn, resetLog, nextId, pre, first>>

\* main's loop is over.
MainDone ==
    /\ UNCHANGED <<exposeVars, createVars>>
    /\ pc = "loop"
    /\ idx > Len(selections)
    /\ pc' = "done"
    /\ UNCHANGED <<nodes, conn, selections, idx, err, cur, orig,
                   list_connection, j, input_conn, resetLog, nextId, pre,
                   first>>

ReplaceNext ==
    \/ MainStart
    \/ PaintResetBegin
    \/ PaintConnect
    \/ PaintConnectFails
    \/ PaintResetReturn
    \/ ChannelResetBegin
    \/ ChannelConnect
    \/ ChannelConnectFails
    \/ ChannelConnectInput
    \/ ChannelConnectInputFails
    \/ MainUnsupported
    \/ MainDone

\* --------------------------------------------------- mari_group_expose.py
\* Longest selection handed to mari_group_expose.py.
MaxExposeSel == 3
\* Most metadata names the first selected node reports.
MaxAttrs == 3

\* Attribute names: "" is the name main's attr_ignore_list holds, and "a_1"
\* is an attribute whose name is also the knob name of "a" on node 1.
AttrNames == {"", "a", "a_1"}

SeqsUpTo(S, n) == UNION {[1..m -> S] : m \in 0..n}

Range(f) == {f[x] : x \in DOMAIN f}

\* A knob name without the node's index.
KnobNameNoIndex(attr_name, i) == attr_name \o "_"

\* "{}_{}".format(_attr_name, index)
KnobName(attr_name, i) == attr_name \o "_" \o ToString(i)

\* attr_ignore_list and attr_name in attr_ignore_list (an empty list and
\* None are both false).
Ignored(attr_name, ignore) == ignore # {} /\ attr_name \in ignore

\* The keys of knob_dict after the loop over first_node.metadataNames(): a
\* name given twice keeps its first place.
RECURSIVE DictKeys(_, _)
DictKeys(names, ignore) ==
    IF names = <<>> THEN <<>>
    ELSE LET front == DictKeys(SubSeq(names, 1, Len(names) - 1), ignore)
             attr_name == names[Len(names)]
         IN IF Ignored(attr_name, ignore) \/ attr_name \in Range(front)
            THEN front
            ELSE Append(front, attr_name)

\* A check that compares the first node with itself only.
SameTypeFirstOnly(types) == \A i \in 1..1 : types[i] = types[1]

\* check_same_type: every node of the selection has the type of the first.
SameType(types) == \A i \in 1..Len(types) : types[i] = types[1]

ExposeInit ==
    /\ sel_types \in SeqsUpTo({PaintType, ChannelType}, MaxExposeSel)
    /\ meta \in SeqsUpTo(AttrNames, MaxAttrs)
    /\ has_group \in BOOLEAN
    /\ attr_ignore_list \in SUBSET AttrNames
    /\ knob_dict = <<>>
    /\ calls = <<>>
    /\ printed = 0
    /\ index = 0
    /\ k = 1
    /\ e_pc = "start"
    /\ e_err = ""

\* UserSelAction.__init__: an empty selection is refused.
ExposeStart ==
    /\ UNCHANGED <<replaceVars, createVars>>
    /\ e_pc = "start"
    /\ IF sel_types = <<>>
       THEN e_pc' = "raised" /\ e_err' = "RuntimeError"
       ELSE e_pc' = "check" /\ e_err' = e_err
    /\ UNCHANGED <<sel_types, meta, has_group, attr_ignore_list, knob_dict,
                   calls, printed, index, k>>

\* self.check_same_type() raises TypeError.
ExposeNotSameType ==
    /\ UNCHANGED <<replaceVars, createVars>>
    /\ e_pc = "check"
    /\ ~SameType(sel_types)
    /\ e_pc' = "raised"
    /\ e_err' = "TypeError"
    /\ UNCHANGED <<sel_types, meta, has_group, attr_ignore_list, knob_dict,
                   calls, printed, index, k>>

\* The node graph has no parent group node: TypeError.
ExposeNoGroup ==
    /\ UNCHANGED <<replaceVars, createVars>>
    /\ e_pc = "check"
    /\ SameType(sel_types)
    /\ ~has_group
    /\ e_pc' = "raised"
    /\ e_err' = "TypeError"
    /\ UNCHANGED <<sel_types, meta, has_group, attr_ignore_list, knob_dict,
                   calls, printed, index, k>>

\* The checks pass: knob_dict gets an empty entry per attribute to expose.
ExposeBuildDict ==
    /\ UNCHANGED <<replaceVars, createVars>>
    /\ e_pc = "check"
    /\ SameType(sel_types)
    /\ has_group
    /\ LET keys == DictKeys(meta, attr_ignore_list)
       IN knob_dict' = [i \in 1..Len(keys) |-> <<keys[i], <<>>>>]
    /\ index' = 0
    /\ k' = 1
    /\ e_pc' = "create"
    /\ UNCHANGED <<sel_types, meta, has_group, attr_ignore_list, calls,
                   printed, e_err>>

\* A recording that starts the list over at every knob.
RecordedAlone(knob_list, new_knob_name) == <<new_knob_name>>

\* The knob names of an entry of knob_dict once new_knob_name is recorded.
Recorded(knob_list, new_knob_name) ==
    IF knob_list = <<>> THEN <<new_knob_name>>
    ELSE Append(knob_list, new_knob_name)

\* One turn of the inner loop: name the knob, record it, create it.
ExposeCreateKnob ==
    /\ UNCHANGED <<replaceVars, createVars>>
    /\ e_pc = "create"
    /\ index < Len(sel_types)
    /\ k <= Len(knob_dict)
    /\ LET attr_name == knob_dict[k][1]
           new_knob_name == KnobName(attr_name, index)
       IN /\ knob_dict' = [knob_dict EXCEPT
                 ![k] = <<attr_name, Recorded(knob_dict[k][2], new_knob_name)>>]
          /\ calls' = Append(calls, [op |-> "createKnob",
                                     name |-> new_knob_name,
                                     node |-> index,
                                     attr |-> attr_name])
    /\ k' = k + 1
    /\ UNCHANGED <<sel_types, meta, has_group, attr_ignore_list, printed,
                   index, e_pc, e_err>>

\* The inner loop is over for this node: on to the next one.
ExposeNextNode ==
    /\ UNCHANGED <<replaceVars, createVars>>
    /\ e_pc = "create"
    /\ index < Len(sel_types)
    /\ k > Len(knob_dict)
    /\ index' = index + 1
    /\ k' = 1
    /\ UNCHANGED <<sel_types, meta, has_group, attr_ignore_list, knob_dict,
                   calls, printed, e_pc, e_err>>

\* Every node is done: on to the linking loop.
ExposeCreateDone ==
    /\ UNCHANGED <<replaceVars, createVars>>
    /\ e_pc = "create"
    /\ index >= Len(sel_types)
    /\ k' = 1
    /\ e_pc' = "link"
    /\ UNCHANGED <<sel_types, meta, has_group, attr_ignore_list, knob_dict,
                   calls, printed, index, e_err>>

LinkCall(entry) ==
    [op |-> "linkKnobs", name |-> entry[1], list |-> entry[2]]

\* One turn of the linking loop: linkKnobs succeeds.
ExposeLinkKnobs ==
    /\ UNCHANGED <<replaceVars, createVars>>
    /\ e_pc = "link"
    /\ k <= Len(knob_dict)
    /\ calls' = Append(calls, LinkCall(knob_dict[k]))
    /\ k' = k + 1
    /\ UNCHANGED <<sel_types, meta, has_group, attr_ignore_list, knob_dict,
                   printed, index, e_pc, e_err>>

\* linkKnobs raises: the error is printed and the loop goes on.
ExposeLinkKnobsFails ==
    /\ UNCHANGED <<replaceVars, createVars>>
    /\ e_pc = "link"
    /\ k <= Len(knob_dict)
    /\ calls' = Append(calls, LinkCall(knob_dict[k]))
    /\ printed' = printed + 1
    /\ k' = k + 1
    /\ UNCHANGED <<sel_types, meta, has_group, attr_ignore_list, knob_dict,
                   index, e_pc, e_err>>

ExposeDone ==
    /\ UNCHANGED <<replaceVars, createVars>>
    /\ e_pc = "link"
    /\ k > Len(knob_dict)
    /\ e_pc' = "done"
    /\ UNCHANGED <<sel_types, meta, has_group, attr_ignore_list, knob_dict,
                   calls, printed, index, k, e_err>>

ExposeNext ==
    \/ ExposeStart
    \/ ExposeNotSameType
    \/ ExposeNoGroup
    \/ ExposeBuildDict
    \/ ExposeCreateKnob
    \/ ExposeNextNode
    \/ ExposeCreateDone
    \/ ExposeLinkKnobs
    \/ ExposeLinkKnobsFails
    \/ ExposeDone

\* --------------------------------------------- mari_create_new_channels.py
RESOLUTION == 4096

\* channel_name: [bitdepth, is_scalar]
CHANNEL_DATA ==
    ("Diffuse_Color" :> <<16, FALSE>>) @@
    ("Specular_Roughness" :> <<16, TRUE>>) @@
    ("Specular_Weight" :> <<16, TRUE>>) @@
    ("Metalness" :> <<16, TRUE>>) @@
    ("Normal" :> <<16, TRUE>>) @@
    ("Displacement" :> <<32, TRUE>>)

\* The configs mari.ocio.currentColorspaceConfig() may be.
ColorConfigs ==
    [scalar : BOOLEAN, raw : BOOLEAN, native : {"sRGB", "ACES - ACEScg"}]

CreateInit ==
    /\ color_config \in ColorConfigs
    /\ pending = DOMAIN CHANNEL_DATA
    /\ channels = {}
    /\ invoked = [n \in DOMAIN CHANNEL_DATA |-> 0]
    /\ returned = [n \in DOMAIN CHANNEL_DATA |-> "none"]
    /\ messages = {}
    /\ c_pc = "setup"

\* A config whose raw flag is left as the host gave it.
ChannelColconfigRawKept(colconfig, create_scalar) ==
    [colconfig EXCEPT !.scalar = IF create_scalar THEN TRUE ELSE FALSE,
                      !.native = "ACES - ACEScg"]

\* The colorspace config create_channel sets on the new channel.
ChannelColconfig(colconfig, create_scalar) ==
    [colconfig EXCEPT !.scalar = IF create_scalar THEN TRUE ELSE FALSE,
                      !.raw = FALSE,
                      !.native = "ACES - ACEScg"]

\* The scalar colorspace config create_channel sets on the new channel.
ChannelScalColconfig(scal_colconfig) ==
    [scal_colconfig EXCEPT !.scalar = TRUE,
                           !.raw = TRUE,
                           !.native = "ACES - ACEScg"]

\* create_channel: createChannelNode gives a node of the asked size, depth
\* and name whose configs start as the given ColorConfig; both are then set.
NewChannel(resolution, bitdepth, config, create_scalar, chan_name) ==
    [name |-> chan_name, width |-> resolution, height |-> resolution,
     depth |-> bitdepth,
     cs |-> ChannelColconfig(config, create_scalar),
     scs |-> ChannelScalColconfig(config)]

\* One turn of setup's loop (a dict has no order): create_channel creates
\* and configures the channel and returns True.
SetupCreateChannel ==
    /\ UNCHANGED <<replaceVars, exposeVars>>
    /\ c_pc = "setup"
    /\ \E chan_name \in pending :
          LET c_bitdepth == CHANNEL_DATA[chan_name][1]
              c_scalar == CHANNEL_DATA[chan_name][2]
          IN /\ channels' = channels \cup
                    {NewChannel(RESOLUTION, c_bitdepth, color_config,
                                c_scalar, chan_name)}
             /\ invoked' = [invoked EXCEPT ![chan_name] = @ + 1]
             /\ returned' = [returned EXCEPT ![chan_name] = "True"]
             /\ pending' = pending \ {chan_name}
    /\ UNCHANGED <<color_config, messages, c_pc>>

\* createChannelNode raises and nothing catches it: setup ends there.
SetupCreateChannelRaises ==
    /\ UNCHANGED <<replaceVars, exposeVars>>
    /\ c_pc = "setup"
    /\ \E chan_name \in pending :
          /\ invoked' = [invoked EXCEPT ![chan_name] = @ + 1]
          /\ pending' = pending \ {chan_name}
    /\ c_pc' = "raised"
    /\ UNCHANGED <<color_config, channels, returned, messages>>

\* createChannelNode raises: create_channel reports it and returns False.
SetupCreateChannelFails ==
    /\ UNCHANGED <<replaceVars, exposeVars>>
    /\ c_pc = "setup"
    /\ \E chan_name \in pending :
          /\ messages' = messages \cup {chan_name}
          /\ invoked' = [invoked EXCEPT ![chan_name] = @ + 1]
          /\ returned' = [returned EXCEPT ![chan_name] = "False"]
          /\ pending' = pending \ {chan_name}
    /\ UNCHANGED <<color_config, channels, c_pc>>

SetupDone ==
    /\ UNCHANGED <<replaceVars, exposeVars>>
    /\ c_pc = "setup"
    /\ pending = {}
    /\ c_pc' = "done"
    /\ UNCHANGED <<color_config, pending, channels, invoked, returned,
                   messages>>

CreateNext ==
    \/ SetupCreateChannel
    \/ SetupCreateChannelFails
    \/ SetupDone

\* ------------------------------------------------------- specifications
\* A script that is not the one running: its state is empty and stays so.
ReplaceIdle ==
    /\ nodes = <<>> /\ conn = {} /\ selections = <<>> /\ idx = 1
    /\ pc = "idle" /\ err = "" /\ cur = None /\ orig = None
    /\ list_connection = <<>> /\ j = 1 /\ input_conn = NoneConn
    /\ resetLog = <<>> /\ nextId = 1
    /\ pre = [nodes |-> <<>>, conn |-> {}]
    /\ first = [nodes |-> <<>>, conn |-> {}]

ExposeIdle ==
    /\ sel_types = <<>> /\ meta = <<>> /\ has_group = FALSE
    /\ attr_ignore_list = {} /\ knob_dict = <<>> /\ calls = <<>>
    /\ printed = 0 /\ index = 0 /\ k = 1 /\ e_pc = "idle" /\ e_err = ""

CreateIdle ==
    /\ color_config = [scalar |-> FALSE, raw |-> FALSE, native |-> "sRGB"]
    /\ pending = {} /\ channels = {}
    /\ invoked = <<>> /\ returned = <<>> /\ messages = {} /\ c_pc = "idle"

\* mari_paint_replace.py
Init == ReplaceInit /\ ExposeIdle /\ CreateIdle
Next == ReplaceNext
Spec == Init /\ [][Next]_vars

\* mari_group_expose.py
InitExpose == ReplaceIdle /\ ExposeInit /\ CreateIdle
NextExpose == ExposeNext
SpecExpose == InitExpose /\ [][NextExpose]_vars

\* mari_create_new_channels.py
InitCreate == ReplaceIdle /\ ExposeIdle /\ CreateInit
NextCreate == CreateNext
SpecCreate == InitCreate /\ [][NextCreate]_vars

\* ------------------------------------------------ mari_paint_replace.py
\* The last reset that returned, and whether it is the one whose locals
\* (pre, orig, cur) the state holds: no later reset has begun.
LastReset == resetLog[Len(resetLog)]

Returned(kind) ==
    /\ pc \in {"loop", "done"}
    /\ resetLog # <<>>
    /\ LastReset.kind = kind

\* Every (target node, input port) the original's "Output" fed is fed by the
\* replacement's "Output".
OutputsRestored ==
    \A t \in OutputNodes(pre.conn, orig, "Output") :
        InputNode(conn, t[1], t[2]) = <<cur, "Output">>

\* C1: after a PaintAction.reset that returned without error, every (target
\* node, input port) pair the original paint node's "Output" fed before the
\* call is fed by the "Output" of the replacement, and no port of the graph
\* refers to the deleted original.
C1_PaintResetKeepsOutputs ==
    Returned("PaintAction") =>
        /\ OutputsRestored
        /\ \A e \in conn : e.src # orig /\ e.dst # orig

\* A paint node that fed two ports, one of them not named "Input", was reset.
C1_Witness ==
    /\ Returned("PaintAction")
    /\ Cardinality(OutputNodes(pre.conn, orig, "Output")) >= 2
    /\ \E t \in OutputNodes(pre.conn, orig, "Output") : t[2] = "Base"

\* C2: after a ChannelAction.reset that returned without error, the output
\* connections are fed by the replacement's "Output" and the replacement's
\* "Input" has the upstream node and output port the original's "Input" had,
\* and is unconnected when the original's was.
C2_ChannelResetKeepsBothWays ==
    Returned("ChannelAction") =>
        /\ OutputsRestored
        /\ InputNode(conn, cur, "Input") = InputNode(pre.conn, orig, "Input")
        /\ \A e \in conn : e.src # orig /\ e.dst # orig

\* A channel node fed from the second output of its upstream node, and
\* feeding another node, was reset.
C2_Witness ==
    /\ Returned("ChannelAction")
    /\ InputNode(pre.conn, orig, "Input") # NoneConn
    /\ InputNode(pre.conn, orig, "Input")[2] = "Out2"
    /\ OutputNodes(pre.conn, orig, "Output") # {}

\* C3: after a successful PaintAction.reset the graph has as many nodes as
\* before, the original is gone, the replacement is a new paint node with the
\* original's name, size, bit depth, fill colour, colorspace config and
\* position, and self.paint_node is the replacement.
C3_PaintResetExactCopy ==
    Returned("PaintAction") =>
        /\ Cardinality(DOMAIN nodes) = Cardinality(DOMAIN pre.nodes)
        /\ orig \notin DOMAIN nodes
        /\ cur \in (DOMAIN nodes) \ (DOMAIN pre.nodes)
        /\ cur = LastReset.new
        /\ nodes[cur].typeID = PaintType
        /\ nodes[cur].name = pre.nodes[orig].name
        /\ nodes[cur].width = pre.nodes[orig].width
        /\ nodes[cur].height = pre.nodes[orig].width
        /\ nodes[cur].depth = pre.nodes[orig].depth
        /\ nodes[cur].fillColor = pre.nodes[orig].fillColor
        /\ nodes[cur].cs = pre.nodes[orig].cs
        /\ nodes[cur].pos = pre.nodes[orig].pos

\* A paint node whose properties are not the host's defaults was reset.
C3_Witness ==
    /\ Returned("PaintAction")
    /\ pre.nodes[orig].fillColor # DefaultColor
    /\ pre.nodes[orig].cs # DefaultCs
    /\ pre.nodes[orig].pos # DefaultPos

\* C4: after a successful ChannelAction.reset the original is gone and the
\* replacement agrees with it on name, width, height, bit depth, fill colour,
\* colorspace config, scalar colorspace config, locked state and position.
C4_ChannelResetExactCopy ==
    Returned("ChannelAction") =>
        /\ orig \notin DOMAIN nodes
        /\ cur \in DOMAIN nodes
        /\ nodes[cur].name = pre.nodes[orig].name
        /\ nodes[cur].width = pre.nodes[orig].width
        /\ nodes[cur].height = pre.nodes[orig].height
        /\ nodes[cur].depth = pre.nodes[orig].depth
        /\ nodes[cur].fillColor = pre.nodes[orig].fillColor
        /\ nodes[cur].cs = pre.nodes[orig].cs
        /\ nodes[cur].scs = pre.nodes[orig].scs
        /\ nodes[cur].locked = pre.nodes[orig].locked
        /\ nodes[cur].pos = pre.nodes[orig].pos

\* The selection holds paint and channel nodes only, and at least one.
SupportedSelection ==
    /\ selections # <<>>
    /\ \A i \in 1..Len(selections) :
          first.nodes[selections[i]].typeID \in {PaintType, ChannelType}

\* Every selected node was reset once, in selection order, by the action of
\* its type, and replaced.
AllResetInOrder ==
    /\ Len(resetLog) = Len(selections)
    /\ \A i \in 1..Len(selections) :
          /\ resetLog[i].orig = selections[i]
          /\ resetLog[i].kind =
                (IF first.nodes[selections[i]].typeID = ChannelType
                 THEN "ChannelAction" ELSE "PaintAction")
          /\ resetLog[i].orig \notin DOMAIN nodes
          /\ resetLog[i].new \in DOMAIN nodes

\* main is over: it returned or raised.
Over == pc \in {"done", "raised"}

\* C8, as stated: for every non-empty selection of paint and channel nodes,
\* main ends without raising and has reset every selected node exactly once,
\* in selection order, by the action of its type.
C8_Original ==
    (SupportedSelection /\ Over) => (pc = "done" /\ AllResetInOrder)

\* C8, amended: for every non-empty selection of paint and channel nodes main
\* ends (no state short of its end is stuck); it raises only RuntimeError,
\* and only out of a reset that is reconnecting the node main is at; when it
\* ends without raising, every selected node was reset exactly once, in
\* selection order, by the action of its type; and the resets that returned
\* are at every moment those of the nodes before main's position.
C8_MainResetsSelection ==
    SupportedSelection =>
        /\ Over \/ ENABLED Next
        /\ err \in {"", "RuntimeError"}
        /\ pc = "raised" =>
              /\ err = "RuntimeError"
              /\ idx <= Len(selections)
              /\ orig = selections[idx]
              /\ cur \in DOMAIN nodes
        /\ pc = "done" => (err = "" /\ AllResetInOrder)
        /\ Len(resetLog) = IF pc = "start" THEN 0 ELSE idx - 1
        /\ \A i \in 1..Len(resetLog) : resetLog[i].orig = selections[i]

\* main ended without raising on a selection of three nodes of both types.
C8_Witness ==
    /\ pc = "done"
    /\ Len(selections) = 3
    /\ \E a, b \in 1..3 :
          /\ first.nodes[selections[a]].typeID = PaintType
          /\ first.nodes[selections[b]].typeID = ChannelType

\* The node that stands for n once main is over: its replacement when n was
\* reset, n itself otherwise.
Replacement(n) ==
    IF \E i \in 1..Len(resetLog) : resetLog[i].orig = n
    THEN resetLog[CHOOSE i \in 1..Len(resetLog) : resetLog[i].orig = n].new
    ELSE n

\* C9: when main has reset a selection, whatever the connections between
\* the selected nodes and whatever their order, the connections of the graph
\* are those it started with, each reset node replaced by its replacement
\* (so the connections between nodes that were not reset are unchanged).
C9_ConnectionsKept ==
    pc = "done" =>
        conn = {[dst |-> Replacement(e.dst), port |-> e.port,
                 src |-> Replacement(e.src), out |-> e.out] :
                    e \in first.conn}

\* A paint node fed two channel nodes; one was reset before the paint node
\* and the other after it.
C9_Witness ==
    /\ pc = "done"
    /\ \E a, b, c \in 1..Len(selections) :
          /\ a < b /\ b < c
          /\ first.nodes[selections[b]].typeID = PaintType
          /\ first.nodes[selections[a]].typeID = ChannelType
          /\ first.nodes[selections[c]].typeID = ChannelType
          /\ InputNode(first.conn, selections[a], "Input")
                = <<selections[b], "Output">>
          /\ InputNode(first.conn, selections[c], "Input")
                = <<selections[b], "Output">>

\* --------------------------------------------------- mari_group_expose.py
Creates == SelectSeq(calls, LAMBDA c : c.op = "createKnob")
Links == SelectSeq(calls, LAMBDA c : c.op = "linkKnobs")

\* A: the first node's metadata names minus those of attr_ignore_list.
Exposed == Range(meta) \ attr_ignore_list

\* The creation loop is over.
KnobsCreated == e_pc \in {"link", "done"}

\* C5: the knobs created on the group node are exactly the n*|A| knobs
\* "<attr>_<i>" for attr in A and i in 0..n-1, "<attr>_<i>" targets attribute
\* attr of the i-th selected node, the names are pairwise distinct, and no
\* knob is created for an ignored attribute.
C5_OneKnobPerNodeAndAttribute ==
    KnobsCreated =>
        LET n == Len(sel_types)
        IN /\ Range(Creates) =
                 {[op |-> "createKnob", name |-> a \o "_" \o ToString(i),
                   node |-> i, attr |-> a] : a \in Exposed, i \in 0..(n - 1)}
           /\ Len(Creates) = n * Cardinality(Exposed)
           /\ Cardinality({c.name : c \in Range(Creates)}) = Len(Creates)
           /\ \A c \in Range(Creates) : c.attr \notin attr_ignore_list

\* Three nodes were exposed, with "a" and "a_1" among the attributes and an
\* ignored attribute among the first node's metadata names.
C5_Witness ==
    /\ e_pc = "done"
    /\ Len(sel_types) = 3
    /\ {"a", "a_1"} \subseteq Exposed
    /\ Range(meta) \cap attr_ignore_list # {}

\* The place of an attribute's first occurrence in metadataNames().
FirstPlace(a) == CHOOSE p \in 1..Len(meta) :
                    meta[p] = a /\ \A q \in 1..(p - 1) : meta[q] # a

\* C6: every createKnob call precedes the first linkKnobs call, and for each
\* non-ignored attribute, in the order of the first node's metadataNames,
\* linkKnobs is called exactly once, under the attribute's name, with the
\* list "<attr>_0" .. "<attr>_<n-1>", one knob per selected node in order.
C6_LinkAfterCreatePerAttribute ==
    /\ \A p, q \in 1..Len(calls) :
          (p < q /\ calls[p].op = "linkKnobs") => calls[q].op = "linkKnobs"
    /\ e_pc = "done" =>
          /\ Len(Links) = Cardinality(Exposed)
          /\ {c.name : c \in Range(Links)} = Exposed
          /\ \A p, q \in 1..Len(Links) :
                p < q => FirstPlace(Links[p].name) < FirstPlace(Links[q].name)
          /\ \A p \in 1..Len(Links) :
                Links[p].list =
                    [i \in 1..Len(sel_types) |->
                        Links[p].name \o "_" \o ToString(i - 1)]

\* Two attributes were linked over three nodes; one linkKnobs call failed.
C6_Witness ==
    /\ e_pc = "done"
    /\ Len(sel_types) = 3
    /\ Len(Links) >= 2
    /\ printed >= 1

\* C10: when the selected nodes are not all of one typeID, or the node graph
\* has no parent group node, expose_attr_to_parent_group raises TypeError
\* and no knob was created or linked.
C10_InvalidInputRejected ==
    (/\ sel_types # <<>>
     /\ e_pc \notin {"start", "check"}
     /\ (\E i \in 1..Len(sel_types) : sel_types[i] # sel_types[1])
            \/ ~has_group) =>
        /\ e_pc = "raised"
        /\ e_err = "TypeError"
        /\ calls = <<>>
        /\ knob_dict = <<>>

\* A selection of two types, inside a group node and with attributes to
\* expose, was refused.
C10_Witness ==
    /\ e_err = "TypeError"
    /\ has_group
    /\ \E i \in 1..Len(sel_types) : sel_types[i] # sel_types[1]
    /\ Exposed # {}

\* --------------------------------------------- mari_create_new_channels.py
\* C7: when node creation never fails, create_channel is invoked exactly
\* once per entry of channels_data, and each created channel node has the
\* entry's name, width = height = the resolution, the entry's bit depth, a
\* colorspace config with scalar = the entry's is_scalar and raw = False, and
\* a scalar colorspace config with scalar = True and raw = True.
C7_SetupCreatesPresetChannels ==
    /\ \A ch \in channels :
          /\ ch.name \in DOMAIN CHANNEL_DATA
          /\ ch.width = RESOLUTION /\ ch.height = RESOLUTION
          /\ ch.depth = CHANNEL_DATA[ch.name][1]
          /\ ch.cs.scalar = CHANNEL_DATA[ch.name][2]
          /\ ch.cs.raw = FALSE
          /\ ch.scs.scalar = TRUE
          /\ ch.scs.raw = TRUE
    /\ (c_pc = "done" /\ messages = {}) =>
          /\ \A n \in DOMAIN CHANNEL_DATA : invoked[n] = 1
          /\ {ch.name : ch \in channels} = DOMAIN CHANNEL_DATA
          /\ Cardinality(channels) = Cardinality(DOMAIN CHANNEL_DATA)

\* setup ended with no creation failed, under a host config that is raw and
\* not scalar.
C7_Witness ==
    /\ c_pc = "done"
    /\ messages = {}
    /\ color_config.raw
    /\ ~color_config.scalar

\* ------------------------------------- mari_paint_replace.py, failures
Unsupported(i) ==
    first.nodes[selections[i]].typeID \notin {PaintType, ChannelType}

HasUnsupported == \E i \in 1..Len(selections) : Unsupported(i)

\* The place (1-based) of the first unsupported node of the selection: the
\* claim's k is the number of nodes before it.
FirstUnsupported ==
    CHOOSE i \in 1..Len(selections) :
        Unsupported(i) /\ \A h \in 1..(i - 1) : ~Unsupported(h)

\* The nodes before the first unsupported one, and no others, were reset and
\* replaced; the unsupported node and the nodes after it are in the graph as
\* they were, and the connections are those main started with, each reset
\* node replaced by its replacement.
ResetUpToUnsupported ==
    /\ Len(resetLog) = FirstUnsupported - 1
    /\ \A i \in 1..Len(resetLog) :
          /\ resetLog[i].orig = selections[i]
          /\ resetLog[i].orig \notin DOMAIN nodes
          /\ resetLog[i].new \in DOMAIN nodes
    /\ \A i \in FirstUnsupported..Len(selections) :
          /\ selections[i] \in DOMAIN nodes
          /\ nodes[selections[i]] = first.nodes[selections[i]]
    /\ DOMAIN nodes =
          {Replacement(n) : n \in DOMAIN first.nodes}
    /\ conn = {[dst |-> Replacement(e.dst), port |-> e.port,
                src |-> Replacement(e.src), out |-> e.out] :
                   e \in first.conn}

\* C11, as stated: when the k-th selected node is the first unsupported one,
\* main raises TypeError, exactly the k nodes before it have been reset, and
\* that node and every node after it are left untouched.
C11_Original ==
    (HasUnsupported /\ Over) =>
        (pc = "raised" /\ err = "TypeError" /\ ResetUpToUnsupported)

\* C11, amended: when the k-th selected node is the first unsupported one,
\* main ends by raising, never by returning; it raises TypeError at that
\* node unless a setInputNode call of one of the k resets before it raised
\* (RuntimeError, main being at one of those k nodes); and when it raises
\* TypeError exactly the k nodes before the unsupported one have been reset
\* and stay replaced, and that node and every node after it are untouched.
C11_UnsupportedNodeAborts ==
    HasUnsupported =>
        /\ Over \/ ENABLED Next
        /\ pc # "done"
        /\ idx <= FirstUnsupported
        /\ pc = "raised" => err \in {"TypeError", "RuntimeError"}
        /\ err = "RuntimeError" => idx < FirstUnsupported
        /\ err = "TypeError" => (idx = FirstUnsupported /\ ResetUpToUnsupported)

\* main raised TypeError at the second of three selected nodes, after the
\* reset of a paint node that fed the third, a channel node.
C11_Witness ==
    /\ err = "TypeError"
    /\ Len(selections) = 3
    /\ FirstUnsupported = 2
    /\ first.nodes[selections[1]].typeID = PaintType
    /\ first.nodes[selections[3]].typeID = ChannelType
    /\ InputNode(first.conn, selections[3], "Input")
          = <<selections[1], "Output">>

\* A reset is in its reconnection loop, or past it.
Reconnecting == pc \in {"paint_connect", "channel_connect"}

\* setInputNode raised on a recorded output connection: list_connection[j]
\* is the connection that failed, the j - 1 before it were made.
FailedInLoop ==
    /\ pc = "raised"
    /\ err = "RuntimeError"
    /\ cur # None
    /\ j <= Len(list_connection)

\* C12: in both resets the original is deleted before any reconnection is
\* attempted; when setInputNode fails on a recorded output connection, a
\* RuntimeError is raised, the original no longer exists, only the output
\* connections recorded before the failing one point at the replacement, the
\* others are not restored, and the replacement's "Input" is not connected.
C12_FailedReconnectionLeavesPartialGraph ==
    /\ Reconnecting =>
          /\ orig \notin DOMAIN nodes
          /\ \A e \in conn : e.src # orig /\ e.dst # orig
    /\ FailedInLoop =>
          /\ orig \notin DOMAIN nodes
          /\ cur \in DOMAIN nodes
          /\ \A e \in conn : e.src # orig /\ e.dst # orig
          /\ Range(list_connection) = OutputNodes(pre.conn, orig, "Output")
          /\ \A i \in 1..(j - 1) :
                InputNode(conn, list_connection[i][1], list_connection[i][2])
                    = <<cur, "Output">>
          /\ \A i \in j..Len(list_connection) :
                InputNode(conn, list_connection[i][1], list_connection[i][2])
                    = NoneConn
          /\ OutputNodes(conn, cur, "Output") =
                {list_connection[i] : i \in 1..(j - 1)}
          /\ InputNode(conn, cur, "Input") = NoneConn
          /\ Len(resetLog) = idx - 1

\* The second of two output connections of a reset node failed: one points
\* at the replacement, the other is lost.
C12_Witness ==
    /\ FailedInLoop
    /\ Len(list_connection) = 2
    /\ j = 2

\* The first output connection of a channel node that had an upstream node
\* failed (a state the formula covers too).
C12_ChannelCase ==
    /\ FailedInLoop
    /\ pre.nodes[orig].typeID = ChannelType
    /\ InputNode(pre.conn, orig, "Input") # NoneConn

\* ----------------------------- mari_create_new_channels.py, failures
ChannelNames == {ch.name : ch \in channels}

\* C13: when createChannelNode raises for an entry, create_channel reports
\* the error and returns False without creating or configuring a node for
\* it, and setup goes on with every remaining entry, so the channels created
\* are exactly those whose creation did not fail; create_channel returns
\* True exactly when the node was created and configured.
C13_FailedCreationIsolated ==
    /\ c_pc = "done" \/ ENABLED NextCreate
    /\ \A n \in DOMAIN CHANNEL_DATA :
          /\ invoked[n] = IF n \in pending THEN 0 ELSE 1
          /\ returned[n] = "none" <=> n \in pending
          /\ returned[n] = "False" <=> n \in messages
          /\ returned[n] = "True" <=> n \in ChannelNames
          /\ n \in messages => n \notin ChannelNames
          /\ returned[n] = "True" =>
                \E ch \in channels :
                    /\ ch.name = n
                    /\ ch.cs = [scalar |-> CHANNEL_DATA[n][2], raw |-> FALSE,
                                native |-> "ACES - ACEScg"]
                    /\ ch.scs = [scalar |-> TRUE, raw |-> TRUE,
                                 native |-> "ACES - ACEScg"]
    /\ Cardinality(channels) = Cardinality(ChannelNames)
    /\ c_pc = "done" =>
          /\ pending = {}
          /\ ChannelNames = (DOMAIN CHANNEL_DATA) \ messages

\* setup ended with the creation of "Diffuse_Color" failed and the five
\* other channels created.
C13_Witness ==
    /\ c_pc = "done"
    /\ messages = {"Diffuse_Color"}
    /\ Cardinality(channels) = 5
====
